---- MODULE Spec2Model ----
(***************************************************************************)
(* Job Exposure Dashboard (src/app.py): the loader/normalizer, the filter  *)
(* engine, the top-10 derivation and the chat session of the Streamlit     *)
(* script.  Streamlit re-executes the script top to bottom on every widget *)
(* interaction; widget values and st.session_state persist across runs.    *)
(*                                                                         *)
(* Strings are sequences of one-character strings.  Numbers are naturals   *)
(* (the model reads unsigned decimal integers only).  The column names are *)
(* taken as already cleaned (line 37); the charts and the rendering of the *)
(* history (lines 83-142, 166-172) hold no state and are left out.  A call *)
(* of the answering capability either returns a string or raises an        *)
(* Exception, which is what line 162 catches.                              *)
(***************************************************************************)
EXTENDS Integers, Sequences, FiniteSets, TLC

\* ------------------------------------------------------------------ bounds
MaxLen == 4         \* longest raw cell of the single-row loader inputs
MaxRows == 3        \* most rows of the multi-row loader inputs
MaxViewRows == 3    \* most rows of the filter inputs
MaxExtra == 1       \* rows beyond TopN in the ranking inputs
MaxTurns == 2       \* chat turns per session
MaxQueryLen == 1    \* longest query typed into the text input

\* ------------------------------------------------------------- characters
Space == " "
Quote == "\""
Alphabet == {Space, Quote, "x", "1"}
Digits == {"0", "1", "2", "3", "4", "5", "6", "7", "8", "9"}

DigitValue(c) ==
    CASE c = "0" -> 0 [] c = "1" -> 1 [] c = "2" -> 2 [] c = "3" -> 3
      [] c = "4" -> 4 [] c = "5" -> 5 [] c = "6" -> 6 [] c = "7" -> 7
      [] c = "8" -> 8 [] c = "9" -> 9

\* All sequences over S of length at most n.
RECURSIVE SeqsUpTo(_, _)
SeqsUpTo(S, n) ==
    IF n = 0 THEN {<<>>}
    ELSE LET shorter == SeqsUpTo(S, n - 1)
         IN shorter \cup {Append(s, c) : s \in shorter, c \in S}

\* ------------------------------------------------------------------ columns
StringColumns == {"Job title", "Major groups", "mean_exposure_level"}
NumericColumns == {"Average score", "Standard deviation"}
Columns == StringColumns \cup NumericColumns

\* The sentinel option of both select boxes.
All == <<"A", "l", "l">>

\* pandas' missing value in a numeric column.
NaN == 0 - 1

\* ---------------------------------------------------------- string cleaning
\* str.strip(): leading and trailing whitespace removed.
RECURSIVE lstrip(_)
lstrip(s) == IF s # <<>> /\ Head(s) = Space THEN lstrip(Tail(s)) ELSE s

RECURSIVE rstrip(_)
rstrip(s) ==
    IF s # <<>> /\ s[Len(s)] = Space THEN rstrip(SubSeq(s, 1, Len(s) - 1)) ELSE s

str_strip(s) == rstrip(lstrip(s))

\* str.replace('^"|"$', '', regex=True): one quote at the start and one quote
\* at the end are removed, each if present.
str_replace(s) ==
    LET a == IF s # <<>> /\ Head(s) = Quote THEN Tail(s) ELSE s
    IN  IF a # <<>> /\ a[Len(a)] = Quote THEN SubSeq(a, 1, Len(a) - 1) ELSE a

\* df[col].str.strip().str.replace(...) on one cell.
clean_cell(s) == str_replace(str_strip(s))

\* pd.to_numeric(..., errors='coerce') on one cell: the number read, or NaN.
RECURSIVE DecimalValue(_)
DecimalValue(s) ==
    IF s = <<>> THEN 0
    ELSE 10 * DecimalValue(SubSeq(s, 1, Len(s) - 1)) + DigitValue(s[Len(s)])

to_numeric(s) ==
    IF s # <<>> /\ \A i \in 1..Len(s) : s[i] \in Digits THEN DecimalValue(s) ELSE NaN

\* ------------------------------------------------------------------- loader
\* pd.read_csv: the rows of the file, labelled by a RangeIndex.  Every column
\* is taken as dtype object; a column pandas already read as numeric holds the
\* numbers that cleaning and to_numeric give for the same text.
read_csv(file) ==
    [i \in 1..Len(file) |-> [c \in Columns \cup {"index"} |->
        IF c = "index" THEN i - 1 ELSE file[i][c]]]

\* A dropna that drops a row only when both numeric values are missing.
dropna_how_all(t) ==
    SelectSeq(t, LAMBDA r : r["Average score"] # NaN \/ r["Standard deviation"] # NaN)

\* df.dropna(subset=['Average score', 'Standard deviation'])
dropna(t) ==
    SelectSeq(t, LAMBDA r : r["Average score"] # NaN /\ r["Standard deviation"] # NaN)

\* Lines 36-47 on a frame whose columns object_cols have dtype object: the
\* object columns are stripped and de-quoted, the numeric columns coerced
\* (to_numeric leaves a column that is already numeric as it is), rows with a
\* NaN in either numeric column dropped.
normalize(t, object_cols) ==
    LET cleaned == [i \in 1..Len(t) |-> [c \in DOMAIN t[i] |->
                      IF c \in object_cols THEN clean_cell(t[i][c]) ELSE t[i][c]]]
        numeric == [i \in 1..Len(t) |-> [c \in DOMAIN t[i] |->
                      IF c \in NumericColumns /\ c \in object_cols
                      THEN to_numeric(cleaned[i][c]) ELSE cleaned[i][c]]]
    IN  dropna(numeric)

load_and_clean_data(file) == normalize(read_csv(file), Columns)

\* ------------------------------------------------------------------- filter
\* Lines 70-74 with the second selection applied to the unfiltered frame.
filter_rows_unchained(d, g, e) ==
    LET a == IF g # All THEN SelectSeq(d, LAMBDA r : r["Major groups"] = g) ELSE d
    IN  IF e # All THEN SelectSeq(d, LAMBDA r : r["mean_exposure_level"] = e) ELSE a

\* Lines 70-74: filtered_df, from a copy of df, narrowed by each select box
\* whose value is not 'All'.
filter_rows(d, g, e) ==
    LET a == IF g # All THEN SelectSeq(d, LAMBDA r : r["Major groups"] = g) ELSE d
    IN  IF e # All THEN SelectSeq(a, LAMBDA r : r["mean_exposure_level"] = e) ELSE a

\* Lines 64 and 66: the options of a select box.
options(d, col) == {All} \cup {d[i][col] : i \in 1..Len(d)}

\* ------------------------------------------------------------------ ranking
TopN == 10

RemoveAt(s, i) == SubSeq(s, 1, i - 1) \o SubSeq(s, i + 1, Len(s))

\* The position of the first row holding the largest 'Average score'.
FirstLargest(view) ==
    CHOOSE i \in 1..Len(view) :
        /\ \A j \in 1..Len(view) : view[j]["Average score"] <= view[i]["Average score"]
        /\ \A j \in 1..(i - 1) : view[j]["Average score"] < view[i]["Average score"]

\* The first n rows in frame order, unsorted.
head(n, view) == SubSeq(view, 1, IF Len(view) < n THEN Len(view) ELSE n)

\* DataFrame.nlargest(n, 'Average score'), keep='first': the n rows with the
\* largest scores, largest first, equal scores in frame order.
RECURSIVE nlargest(_, _)
nlargest(n, view) ==
    IF n = 0 \/ view = <<>> THEN <<>>
    ELSE LET i == FirstLargest(view)
         IN  <<view[i]>> \o nlargest(n - 1, RemoveAt(view, i))

\* --------------------------------------------------------------------- chat
\* The literal prefix of the fallback answer, one token.
ErrorPrefix == <<"Error contacting Grok: ">>

\* Line 163: f"Error contacting Grok: {str(e)}"
error_message(detail) == ErrorPrefix \o detail

\* Line 147: `if user_query:` - a str is true iff it is not empty.
truthy(q) == Len(q) > 0

ChatTurn(id, q, a) == [id |-> id, query |-> q, answer |-> a]

\* A failure branch that records nothing.
on_failure_silent(history, id, q, detail) == history

\* A failure branch that records the turn twice.
on_failure_twice(history, id, q, detail) ==
    Append(Append(history, ChatTurn(id, q, error_message(detail))),
           ChatTurn(id + 1, q, error_message(detail)))

\* A success branch that puts the new turn first (list.insert(0, ...)).
on_success_insert_first(history, id, q, answer) ==
    <<ChatTurn(id, q, answer)>> \o history

\* Line 161: the try branch's append.
on_success(history, id, q, answer) == Append(history, ChatTurn(id, q, answer))

\* Lines 162-164: the except branch's append.
on_failure(history, id, q, detail) ==
    Append(history, ChatTurn(id, q, error_message(detail)))

\* ------------------------------------------------------------------- inputs
Row(t, g, l, s, d) ==
    [c \in Columns |->
        CASE c = "Job title" -> t
          [] c = "Major groups" -> g
          [] c = "mean_exposure_level" -> l
          [] c = "Average score" -> s
          [] c = "Standard deviation" -> d]

\* Raw numeric cells: plain, padded and quoted, malformed, empty.
NumCells == {<<"1">>, <<Space, Quote, "2", Quote>>, <<"x">>, <<>>}

\* Loader inputs: one row whose 'Major groups' cell is any string of at most
\* MaxLen characters, and up to MaxRows rows of every mix of numeric cells.
LoadFiles ==
    {<<Row(<<"x">>, g, <<"x">>, <<"1">>, <<"1">>)>> : g \in SeqsUpTo(Alphabet, MaxLen)}
    \cup SeqsUpTo({Row(<<"x">>, <<"x">>, <<"x">>, s, d) : s \in NumCells, d \in NumCells},
                  MaxRows)

\* Filter and ranking inputs: short files of every mix of group and level,
\* and files of up to TopN + MaxExtra rows of two kinds.
ViewFiles ==
    SeqsUpTo({Row(<<"x">>, g, l, <<"1">>, <<"1">>) :
                 g \in {<<"x">>, <<"1">>, All}, l \in {<<"x">>, <<"1">>}}, MaxViewRows)
    \cup SeqsUpTo({Row(<<"x">>, <<"x">>, <<"x">>, <<"1">>, <<"1">>),
                   Row(<<"x">>, <<"1">>, <<"x">>, <<"2">>, <<"1">>)}, TopN + MaxExtra)

\* Session inputs.
AppFiles ==
    { <<>>,
      <<Row(<<"x">>, <<"x">>, <<"x">>, <<"2">>, <<"1">>)>>,
      <<Row(<<"x">>, <<"x">>, <<"x">>, <<"2">>, <<"1">>),
        Row(<<"x">>, <<"1">>, <<"1">>, <<"1">>, <<"x">>),
        Row(<<"x">>, <<"1">>, <<"1">>, <<"1">>, <<"1">>)>> }

Queries == SeqsUpTo({Space, "a"}, MaxQueryLen)
Answers == {<<"y">>}
Details == {<<"t">>, <<>>}

\* -------------------------------------------------------------------- state
VARIABLES
    csv,                \* the rows of data-x3jzk.csv
    df,                 \* the normalized dataset (line 55)
    selected_group,     \* select box "Select Major Group" (line 65)
    selected_exposure,  \* select box "Select Exposure Level" (line 67)
    filtered_df,        \* lines 70-74
    top_10_df,          \* line 82
    user_query,         \* text input (line 146)
    chat_history,       \* st.session_state.chat_history
    response,           \* outcome of the last completions.create call
    calls,              \* calls of the answering capability made so far
    uuids,              \* uuid4 values drawn so far
    pc                  \* "Start", "Idle", or "Pending" (inside the call)

vars == <<csv, df, selected_group, selected_exposure, filtered_df, top_10_df,
          user_query, chat_history, response, calls, uuids, pc>>

NoResponse == [kind |-> "none", text |-> <<>>]

InitWith(files) ==
    /\ csv \in files
    /\ df = <<>>
    /\ selected_group = All
    /\ selected_exposure = All
    /\ filtered_df = <<>>
    /\ top_10_df = <<>>
    /\ user_query = <<>>
    /\ chat_history = <<>>
    /\ response = NoResponse
    /\ calls = 0
    /\ uuids = 0
    /\ pc = "Start"

Init == InitWith(AppFiles)
InitLoad == InitWith(LoadFiles)
InitView == InitWith(ViewFiles)

\* One execution of the script down to the call of the answering capability,
\* with the widgets holding q, g and e.
Run(q, g, e) ==
    /\ user_query' = q
    /\ selected_group' = g
    /\ selected_exposure' = e
    /\ df' = load_and_clean_data(csv)
    /\ filtered_df' = filter_rows(df', g, e)
    /\ top_10_df' = nlargest(TopN, filtered_df')
    /\ IF truthy(q)
       THEN pc' = "Pending" /\ calls' = calls + 1
       ELSE pc' = "Idle" /\ calls' = calls
    /\ UNCHANGED <<csv, chat_history, response, uuids>>

\* The first execution: every widget holds its default.
Startup ==
    /\ pc = "Start"
    /\ Run(<<>>, All, All)

\* The user enters a new value in the text input.
SubmitQuery(q) ==
    /\ pc = "Idle"
    /\ q # user_query
    /\ truthy(q) => Len(chat_history) < MaxTurns
    /\ Run(q, selected_group, selected_exposure)

\* The user picks another option of a select box; the text input keeps its value.
SelectGroup(g) ==
    /\ pc = "Idle"
    /\ g \in options(df, "Major groups")
    /\ g # selected_group
    /\ truthy(user_query) => Len(chat_history) < MaxTurns
    /\ Run(user_query, g, selected_exposure)

SelectExposure(e) ==
    /\ pc = "Idle"
    /\ e \in options(df, "mean_exposure_level")
    /\ e # selected_exposure
    /\ truthy(user_query) => Len(chat_history) < MaxTurns
    /\ Run(user_query, selected_group, e)

\* Lines 156-161: the call returns an answer.
CapabilityReturns(answer) ==
    /\ pc = "Pending"
    /\ response' = [kind |-> "ok", text |-> answer]
    /\ chat_history' = on_success(chat_history, uuids + 1, user_query, answer)
    /\ uuids' = uuids + 1
    /\ pc' = "Idle"
    /\ UNCHANGED <<csv, df, selected_group, selected_exposure, filtered_df,
                   top_10_df, user_query, calls>>

\* Lines 162-164: the call raises an Exception whose str() is detail.
CapabilityRaises(detail) ==
    /\ pc = "Pending"
    /\ response' = [kind |-> "error", text |-> detail]
    /\ chat_history' = on_failure(chat_history, uuids + 1, user_query, detail)
    /\ uuids' = uuids + 1
    /\ pc' = "Idle"
    /\ UNCHANGED <<csv, df, selected_group, selected_exposure, filtered_df,
                   top_10_df, user_query, calls>>

Next ==
    \/ Startup
    \/ \E q \in Queries : SubmitQuery(q)
    \/ \E g \in options(df, "Major groups") : SelectGroup(g)
    \/ \E e \in options(df, "mean_exposure_level") : SelectExposure(e)
    \/ \E a \in Answers : CapabilityReturns(a)
    \/ \E d \in Details : CapabilityRaises(d)

NextLoad == Startup

NextView ==
    \/ Startup
    \/ \E g \in options(df, "Major groups") : SelectGroup(g)
    \/ \E e \in options(df, "mean_exposure_level") : SelectExposure(e)

Spec == Init /\ [][Next]_vars
SpecLoad == InitLoad /\ [][NextLoad]_vars
SpecView == InitView /\ [][NextView]_vars

\* ---------------------------------------------------------------- properties
Last(s) == s[Len(s)]

IsPrefix(a, b) == Len(a) <= Len(b) /\ SubSeq(b, 1, Len(a)) = a

\* C1: a submission whose capability call fails leaves the k earlier turns as
\* they were and appends one turn holding the submitted query and the answer
\* "Error contacting Grok: <detail>"; the run ends normally, back at Idle.
ConversationFailureIsolation ==
    [][(pc = "Pending" /\ response'.kind = "error") =>
          /\ truthy(user_query)
          /\ Len(chat_history') = Len(chat_history) + 1
          /\ SubSeq(chat_history', 1, Len(chat_history)) = chat_history
          /\ Last(chat_history').query = user_query
          /\ Last(chat_history').answer = <<"Error contacting Grok: ">> \o response'.text
          /\ pc' = "Idle"]_vars

FailedAfterResolvedTurn ==
    /\ pc = "Idle"
    /\ response.kind = "error"
    /\ Len(chat_history) >= 2
    /\ chat_history[1].answer \in Answers
    /\ Last(chat_history).answer = <<"Error contacting Grok: ">> \o response.text
    /\ response.text # <<>>

\* C2: the history only grows at its end: across every step the old history
\* is a prefix of the new one.
HistoryAppendOnly == [][IsPrefix(chat_history, chat_history')]_vars

HistoryGrewAcrossInteractions ==
    /\ pc = "Idle"
    /\ Len(chat_history) >= 2
    /\ chat_history[1].answer \in Answers
    /\ Last(chat_history).answer \notin Answers
    /\ selected_group # All
    /\ user_query = <<>>

\* C3: submitting a blank query (empty, or whitespace only) starts no call of
\* the capability and appends no turn.
BlankQueryIsNoOp ==
    [][(pc = "Idle" /\ user_query' # user_query /\ str_strip(user_query') = <<>>) =>
          (pc' = "Idle" /\ chat_history' = chat_history /\ calls' = calls)]_vars

\* C4: a submission of a non-empty query calls the capability once and ends
\* with one turn appended; every turn in the history is whole, and the calls
\* made are the turns appended plus the one call in flight.
SubmissionAppendsOneTurn ==
    /\ [](/\ calls = Len(chat_history) + (IF pc = "Pending" THEN 1 ELSE 0)
          /\ \A i \in 1..Len(chat_history) :
                /\ DOMAIN chat_history[i] = {"id", "query", "answer"}
                /\ truthy(chat_history[i].query))
    /\ [][/\ (pc = "Idle" /\ user_query' # user_query /\ truthy(user_query')) =>
                (pc' = "Pending" /\ calls' = calls + 1 /\ chat_history' = chat_history)
          /\ pc = "Pending" =>
                /\ pc' = "Idle"
                /\ calls' = calls
                /\ Len(chat_history') = Len(chat_history) + 1
                /\ Last(chat_history').query = user_query]_vars

SubmissionsSucceededAndFailed ==
    /\ pc = "Idle"
    /\ Len(chat_history) = 2
    /\ calls = 2
    /\ chat_history[1].answer \notin Answers
    /\ chat_history[2].answer \in Answers
    /\ chat_history[1].query # chat_history[2].query

\* C10: a change of a select box alone, the text input keeping its value,
\* calls the capability no more and leaves the history as it was.
FilterChangeLeavesChat ==
    [][(/\ pc = "Idle"
        /\ user_query' = user_query
        /\ selected_group' # selected_group \/ selected_exposure' # selected_exposure) =>
          (calls' = calls /\ chat_history' = chat_history)]_vars

\* A row satisfies the selection (g, e); 'All' constrains nothing.
Matches(r, g, e) ==
    /\ g = All \/ r["Major groups"] = g
    /\ e = All \/ r["mean_exposure_level"] = e

\* Values to select by: present in the inputs, the sentinel, and one absent.
CellValues == {<<"x">>, <<"1">>, All, <<Quote>>}

Min(a, b) == IF a < b THEN a ELSE b

SortedDescending(t) ==
    \A i \in 1..(Len(t) - 1) : t[i]["Average score"] >= t[i + 1]["Average score"]

\* The position in view of the row labelled as r is.
PositionIn(view, r) == CHOOSE j \in 1..Len(view) : view[j]["index"] = r["index"]

RowsOf(view, t) == \A i \in 1..Len(t) : \E j \in 1..Len(view) : view[j] = t[i]

\* t keeps the relative order that its rows have in view.
IsSubsequence(t, view) ==
    /\ RowsOf(view, t)
    /\ \A i \in 1..Len(t) : \A k \in (i + 1)..Len(t) :
          PositionIn(view, t[i]) < PositionIn(view, t[k])

\* C7 as stated: the top 10 are min(M, 10) rows, sorted descending by score,
\* and a subsequence of the view.
TopNIsSortedSubsequence ==
    pc # "Start" =>
        /\ Len(top_10_df) = Min(Len(filtered_df), 10)
        /\ SortedDescending(top_10_df)
        /\ IsSubsequence(top_10_df, filtered_df)

\* C7 amended: the top 10 are min(M, 10) rows, sorted descending by score,
\* each of them a row of the view and no row taken twice.
TopNIsSortedSelection ==
    pc # "Start" =>
        /\ Len(top_10_df) = Min(Len(filtered_df), 10)
        /\ SortedDescending(top_10_df)
        /\ RowsOf(filtered_df, top_10_df)
        /\ \A i \in 1..Len(top_10_df) : \A k \in (i + 1)..Len(top_10_df) :
              top_10_df[i]["index"] # top_10_df[k]["index"]

TopNCutsUnsortedView ==
    /\ pc = "Idle"
    /\ Len(filtered_df) > 10
    /\ Len(top_10_df) = 10
    /\ ~SortedDescending(filtered_df)
    /\ top_10_df[1]["Average score"] > top_10_df[10]["Average score"]

CoerceTrimmed(s) == to_numeric(str_strip(s))
CoerceCleaned(s) == to_numeric(str_replace(str_strip(s)))

\* The rows of the file whose two numeric cells are numbers once trimmed.
RetainedTrimmed ==
    {i \in 1..Len(csv) : CoerceTrimmed(csv[i]["Average score"]) # NaN
                         /\ CoerceTrimmed(csv[i]["Standard deviation"]) # NaN}

\* The rows of the file whose two numeric cells are numbers once trimmed and
\* rid of one leading and one trailing quote.
RetainedCleaned ==
    {i \in 1..Len(csv) : CoerceCleaned(csv[i]["Average score"]) # NaN
                         /\ CoerceCleaned(csv[i]["Standard deviation"]) # NaN}

\* The dataset holds exactly the rows of the file in keep, in file order.
DatasetIs(keep) ==
    /\ Len(df) = Len(csv) - Cardinality((1..Len(csv)) \ keep)
    /\ {df[k]["index"] + 1 : k \in 1..Len(df)} = keep
    /\ \A k \in 1..(Len(df) - 1) : df[k]["index"] < df[k + 1]["index"]

\* C5 as stated: a row is dropped iff one of its two numeric cells fails
\* numeric coercion after trimming; the other rows stay, in file order.
RowDropAfterTrimming == pc # "Start" => DatasetIs(RetainedTrimmed)

\* C5 amended: a row is dropped iff one of its two numeric cells fails numeric
\* coercion after trimming and removal of one leading and one trailing quote;
\* the other rows stay, in file order.
RowDropAfterCleaning == pc # "Start" => DatasetIs(RetainedCleaned)

MiddleRowDropped ==
    /\ pc = "Idle"
    /\ Len(csv) = 3
    /\ Len(df) = 2
    /\ df[1]["index"] = 0
    /\ df[2]["index"] = 2
    /\ Quote \in {csv[3]["Average score"][j] : j \in 1..Len(csv[3]["Average score"])}
    /\ csv[2]["Average score"] = <<"1">>
    /\ csv[2]["Standard deviation"] = <<"x">>

\* C8: normalizing the normalized dataset again changes nothing.
NormalizeIsIdempotent == pc # "Start" => normalize(df, StringColumns) = df

\* s is v with whitespace around it, or v with whitespace around it wrapped in
\* one pair of quotes, with whitespace around that.
IsRawFormOf(s, v) ==
    LET t == str_strip(s)
    IN  \/ t = v
        \/ /\ Len(t) >= 2
           /\ Head(t) = Quote
           /\ Last(t) = Quote
           /\ str_strip(SubSeq(t, 2, Len(t) - 1)) = v

CleanValues == SeqsUpTo({"x", "1"}, MaxLen) \ {<<>>}

\* C9: every raw form of a clean value v - v within whitespace and/or one
\* pair of quotes - is loaded as v, so the filter on v selects its row.
RawFormsNormalizeAlike ==
    pc # "Start" =>
        \A k \in 1..Len(df) : \A v \in CleanValues :
            IsRawFormOf(csv[df[k]["index"] + 1]["Major groups"], v) =>
                /\ df[k]["Major groups"] = v
                /\ \E j \in 1..Len(filter_rows(df, v, All)) :
                      filter_rows(df, v, All)[j] = df[k]

====
